---- MODULE Spec2Model ----
(***************************************************************************)
(* Model of the Binance trading bot: the single-order paths of TradingBot  *)
(* (trading_bot.py), the composite order helpers OCOManager, TWAPExecutor  *)
(* and GridTrader (app/orders), and the PriceFeed (app/market/ws.py).      *)
(*                                                                         *)
(* Quantities and prices are counted in integer units of the smallest      *)
(* decimal the operator types; a quotient that is not a whole number of    *)
(* units is kept as an exact fraction [n, d].                              *)
(***************************************************************************)
EXTENDS Integers, Sequences, FiniteSets, TLC

VARIABLES
    pc,        \* position of the command loop: "menu" or "done"
    op,        \* the handler the command loop ran last
    args,      \* the arguments it was called with
    trace,     \* the calls the handler made, in order
    result,    \* the dict the handler returned
    latest,    \* PriceFeed.latest
    lock,      \* PriceFeed._lock: the thread holding it, or NoThread
    tpc,       \* position of each thread in _on_ticker or get_price
    msg,       \* the tick a callback thread is handling
    want,      \* the symbol a reader thread asked for
    ret,       \* the value get_price is returning to a reader thread
    delivered, \* the ticks written in full so far, as <<symbol, price>>
    lastTick,  \* per symbol, the price of the tick written last, or NonePrice
    fast,      \* SMACrossover.fast
    slow,      \* SMACrossover.slow
    buf,       \* SMACrossover.buf: per symbol the two windows of closes
    bar,       \* the arguments of the last on_bar_close call, or None
    signal,    \* the value the last on_bar_close call returned
    closes,    \* per symbol, the closes passed so far, in tenths
    bt,        \* Backtester.run: its position in the loop, its locals and
               \* the dict it returned
    price_feed,   \* main's price_feed: "None" or the PriceFeed it started
    api_thread,   \* main's api_thread: "None" or the thread serving the API
    api_services, \* main's api_services: None or the Services of the API
    response      \* the JSON body the price endpoint answered last, or None

orderVars == <<pc, op, args, trace, result>>
feedVars == <<latest, lock, tpc, msg, want, ret, delivered, lastTick>>
smaVars == <<fast, slow, buf, bar, signal, closes>>
apiVars == <<price_feed, api_thread, api_services, response>>
vars == <<pc, op, args, trace, result, latest, lock, tpc, msg, want, ret, delivered,
          lastTick, fast, slow, buf, bar, signal, closes, bt, price_feed,
          api_thread, api_services, response>>

----------------------------------------------------------------------------
(* Bounds of the model *)

MaxQty == 3
MaxPrice == 2
MaxSlices == 3
MaxLevels == 3
MaxDuration == 2
MaxMinSlice == 1
NumWriters == 2
NumReaders == 1
MaxPeriod == 3
MaxBars == 4

----------------------------------------------------------------------------
(* Input domains *)

SymbolInputs == {"BTCUSDT", "ethusdt", "LTCUSDT", "DOGE"}
SideInputs == {"BUY", "sell", "HOLD"}
Quantities == 0..MaxQty
Prices == 0..MaxPrice
TypeInputs == {"MARKET", "limit", "STOP_LOSS_LIMIT", "TAKE_PROFIT_LIMIT", "OCO"}
Outcomes == {"Accepted", "Rejected", "Transient", "Fatal"}
Durations == -1..MaxDuration
SliceCounts == -1..MaxSlices
MinSliceQtys == 0..MaxMinSlice
LevelCounts == -1..MaxLevels
BasePrices == (1..MaxPrice) \cup {100}
\* step_pct 0.01 and 0.5
StepPcts == {[n |-> 1, d |-> 100], [n |-> 1, d |-> 2]}

\* price=None of validate_order_params
NonePrice == -1

\* str.upper() on the strings the model uses
Upper(s) ==
    CASE s = "sell" -> "SELL"
      [] s = "buy" -> "BUY"
      [] s = "ethusdt" -> "ETHUSDT"
      [] s = "btcusdt" -> "BTCUSDT"
      [] s = "limit" -> "LIMIT"
      [] OTHER -> s

\* the 'symbols' list of the exchange's get_exchange_info() answer; the
\* filters of LTCUSDT list neither LOT_SIZE nor PRICE_FILTER
ExchangeInfo ==
    [BTCUSDT |-> [symbol |-> "BTCUSDT", stepSize |-> 2, tickSize |-> 2],
     ETHUSDT |-> [symbol |-> "ETHUSDT", stepSize |-> 3, tickSize |-> 1],
     LTCUSDT |-> [symbol |-> "LTCUSDT"]]

None == [none |-> TRUE]
IsNone(x) == "none" \in DOMAIN x

----------------------------------------------------------------------------
(* TradingBot: symbol lookup, validation, quantization *)

\* get_symbol_info: ok is whether the exchange-info request succeeded
get_symbol_info(symbol, ok) ==
    IF ok /\ Upper(symbol) \in DOMAIN ExchangeInfo
    THEN ExchangeInfo[Upper(symbol)]
    ELSE None

\* the event get_symbol_info leaves in the call trace
InfoEvent(symbol, ok) == [ev |-> "get_exchange_info", symbol |-> symbol, ok |-> ok]

ValidTypes == {"MARKET", "LIMIT", "STOP_LOSS_LIMIT", "TAKE_PROFIT_LIMIT"}
PricedTypes == {"LIMIT", "STOP_LOSS_LIMIT", "TAKE_PROFIT_LIMIT"}

\* validate_order_params with the quantity check moved before the side check
ValidateReasonQuantityFirst(symbol, side, order_type, quantity, price, ok) ==
    IF IsNone(get_symbol_info(symbol, ok)) THEN "Invalid symbol"
    ELSE IF quantity <= 0 THEN "Invalid quantity"
    ELSE IF Upper(side) \notin {"BUY", "SELL"} THEN "Invalid side"
    ELSE IF Upper(order_type) \notin ValidTypes THEN "Invalid order type"
    ELSE IF Upper(order_type) \in PricedTypes /\ (price = NonePrice \/ price <= 0)
         THEN "Price required"
    ELSE "ok"

\* the check of validate_order_params that fails first, or "ok"
ValidateReason(symbol, side, order_type, quantity, price, ok) ==
    IF IsNone(get_symbol_info(symbol, ok)) THEN "Invalid symbol"
    ELSE IF Upper(side) \notin {"BUY", "SELL"} THEN "Invalid side"
    ELSE IF Upper(order_type) \notin ValidTypes THEN "Invalid order type"
    ELSE IF quantity <= 0 THEN "Invalid quantity"
    ELSE IF Upper(order_type) \in PricedTypes /\ (price = NonePrice \/ price <= 0)
         THEN "Price required"
    ELSE "ok"

\* validate_order_params without its 'return False' lines
ValidateAlwaysTrue(symbol, side, order_type, quantity, price, ok) == TRUE

validate_order_params(symbol, side, order_type, quantity, price, ok) ==
    ValidateReason(symbol, side, order_type, quantity, price, ok) = "ok"

\* the events one run of validate_order_params leaves in the call trace
ValidateEvents(symbol, side, order_type, quantity, price, ok) ==
    << InfoEvent(symbol, ok),
       [ev |-> "validate", symbol |-> Upper(symbol), side |-> Upper(side),
        type |-> order_type, quantity |-> quantity, price |-> price,
        reason |-> ValidateReason(symbol, side, order_type, quantity, price, ok)] >>

\* round(Decimal(q) / step) * step
QuantizeNearest(value, increment) ==
    ((value + increment \div 2) \div increment) * increment

\* (Decimal(q) // step) * step
QuantizeDown(value, increment) == (value \div increment) * increment

\* the loop over symbol_info['filters'] finds a LOT_SIZE entry
HasLotSize(symbol_info) == "stepSize" \in DOMAIN symbol_info

\* the loop over symbol_info['filters'] finds a PRICE_FILTER entry
HasPriceFilter(symbol_info) == "tickSize" \in DOMAIN symbol_info

\* a quantity without a step to quantize it by is replaced by zero
format_quantity_or_zero(symbol, quantity, ok) ==
    LET symbol_info == get_symbol_info(symbol, ok)
    IN  IF ~IsNone(symbol_info) /\ HasLotSize(symbol_info)
        THEN QuantizeDown(quantity, symbol_info.stepSize)
        ELSE 0

format_quantity(symbol, quantity, ok) ==
    LET symbol_info == get_symbol_info(symbol, ok)
    IN  IF ~IsNone(symbol_info) /\ HasLotSize(symbol_info)
        THEN QuantizeDown(quantity, symbol_info.stepSize)
        ELSE quantity

format_price(symbol, price, ok) ==
    LET symbol_info == get_symbol_info(symbol, ok)
    IN  IF ~IsNone(symbol_info) /\ HasPriceFilter(symbol_info)
        THEN QuantizeDown(price, symbol_info.tickSize)
        ELSE price

----------------------------------------------------------------------------
(* The exchange client *)

\* the order dict create_order returns when the exchange accepts the request
OrderDict(id, req) ==
    [orderId |-> id, symbol |-> req.symbol, side |-> req.side, type |-> req.type,
     origQty |-> req.quantity, price |-> req.price, stopPrice |-> req.stopPrice,
     status |-> "NEW"]

\* the request of one create_order call
Request(symbol, side, type, quantity, price, stopPrice) ==
    [symbol |-> symbol, side |-> side, type |-> type, quantity |-> quantity,
     price |-> price, stopPrice |-> stopPrice]

\* the event one create_order call leaves in the call trace
CreateEvent(req, outcome) == [ev |-> "create_order", req |-> req, outcome |-> outcome]

SaveEvent(order, ok) == [ev |-> "save_order", orderId |-> order.orderId, ok |-> ok]

\* {'success': False, 'error': str(e)}
Failure(error) == [success |-> FALSE, error |-> error]

\* save_order outside its own try: the exception reaches the outer handler
SaveUnguarded(saveOk, r) == IF saveOk THEN r ELSE Failure("Failed to persist")

\* try: save_order(order) / except Exception: warning; r is returned anyway
SaveGuarded(saveOk, r) == r

----------------------------------------------------------------------------
(* TradingBot.place_market_order *)

place_market_order(symbol, side, quantity, info, outcome, saveOk) ==
    LET t1 == ValidateEvents(symbol, side, "MARKET", quantity, NonePrice, info[1])
        formatted_quantity == format_quantity(symbol, quantity, info[2])
        req == Request(Upper(symbol), Upper(side), "MARKET", formatted_quantity,
                       NonePrice, NonePrice)
        t2 == t1 \o << InfoEvent(symbol, info[2]), CreateEvent(req, outcome) >>
        order == OrderDict(Len(t2), req)
    IN  IF ~validate_order_params(symbol, side, "MARKET", quantity, NonePrice, info[1])
        THEN [trace |-> t1, result |-> Failure("Invalid order parameters")]
        ELSE IF outcome # "Accepted"
        THEN [trace |-> t2, result |-> Failure(outcome)]
        ELSE [trace |-> t2 \o << SaveEvent(order, saveOk) >>,
              result |-> SaveGuarded(saveOk, [success |-> TRUE, order_id |-> order.orderId,
                          symbol |-> order.symbol, side |-> order.side,
                          type |-> order.type, quantity |-> order.origQty,
                          status |-> order.status, order_details |-> order])]

----------------------------------------------------------------------------
(* TradingBot.place_limit_order *)

place_limit_order(symbol, side, quantity, price, info, outcome, saveOk) ==
    LET t1 == ValidateEvents(symbol, side, "LIMIT", quantity, price, info[1])
        formatted_quantity == format_quantity(symbol, quantity, info[2])
        formatted_price == format_price(symbol, price, info[3])
        req == Request(Upper(symbol), Upper(side), "LIMIT", formatted_quantity,
                       formatted_price, NonePrice)
        t2 == t1 \o << InfoEvent(symbol, info[2]), InfoEvent(symbol, info[3]),
                       CreateEvent(req, outcome) >>
        order == OrderDict(Len(t2), req)
    IN  IF ~validate_order_params(symbol, side, "LIMIT", quantity, price, info[1])
        THEN [trace |-> t1, result |-> Failure("Invalid order parameters")]
        ELSE IF outcome # "Accepted"
        THEN [trace |-> t2, result |-> Failure(outcome)]
        ELSE [trace |-> t2 \o << SaveEvent(order, saveOk) >>,
              result |-> SaveGuarded(saveOk, [success |-> TRUE, order_id |-> order.orderId,
                          symbol |-> order.symbol, side |-> order.side,
                          type |-> order.type, quantity |-> order.origQty,
                          price |-> order.price,
                          status |-> order.status, order_details |-> order])]

----------------------------------------------------------------------------
(* TradingBot.place_stop_limit_order *)

place_stop_limit_order(symbol, side, quantity, price, stop_price, info, outcome, saveOk) ==
    LET t1 == ValidateEvents(symbol, side, "STOP_LOSS_LIMIT", quantity, price, info[1])
        formatted_quantity == format_quantity(symbol, quantity, info[2])
        formatted_price == format_price(symbol, price, info[3])
        formatted_stop == format_price(symbol, stop_price, info[4])
        req == Request(Upper(symbol), Upper(side), "STOP_LOSS_LIMIT", formatted_quantity,
                       formatted_price, formatted_stop)
        t2 == t1 \o << InfoEvent(symbol, info[2]), InfoEvent(symbol, info[3]),
                       InfoEvent(symbol, info[4]), CreateEvent(req, outcome) >>
        order == OrderDict(Len(t2), req)
    IN  IF ~validate_order_params(symbol, side, "STOP_LOSS_LIMIT", quantity, price, info[1])
        THEN [trace |-> t1, result |-> Failure("Invalid order parameters")]
        ELSE IF stop_price <= 0
        THEN [trace |-> t1, result |-> Failure("Invalid stop price")]
        ELSE IF outcome # "Accepted"
        THEN [trace |-> t2, result |-> Failure(outcome)]
        ELSE [trace |-> t2 \o << SaveEvent(order, saveOk) >>,
              result |-> SaveGuarded(saveOk, [success |-> TRUE, order_id |-> order.orderId,
                          symbol |-> order.symbol, side |-> order.side,
                          type |-> order.type, quantity |-> order.origQty,
                          price |-> order.price, stop_price |-> order.stopPrice,
                          status |-> order.status, order_details |-> order])]

----------------------------------------------------------------------------
(* Exact fractions, for the float quotients of TWAP and Grid *)

Abs(x) == IF x < 0 THEN -x ELSE x

RECURSIVE GCD(_, _)
GCD(a, b) == IF b = 0 THEN a ELSE GCD(b, a % b)

\* the fraction n/d (d > 0) in lowest terms
Frac(n, d) ==
    LET g == GCD(Abs(n), d)
    IN  [n |-> n \div g, d |-> d \div g]

\* min(a, b) of two fractions
FracMin(a, b) == IF a.n * b.d <= b.n * a.d THEN a ELSE b

\* max(a, b) of two fractions
FracMax(a, b) == IF a.n * b.d >= b.n * a.d THEN a ELSE b

----------------------------------------------------------------------------
(* TWAPExecutor.execute *)

SleepEvent(interval) == [ev |-> "sleep", interval |-> interval]

\* line 26: {'success': False, 'placed': placed, 'error': str(e)}
TwapFailureBlanket(placed, error) == Failure(error)

TwapFailure(placed, error) == [success |-> FALSE, placed |-> placed, error |-> error]

\* the for loop with 'continue' in place of the return of line 26: after a
\* failed slice the same request is submitted again
RECURSIVE TwapLoopContinuing(_, _, _, _, _, _, _)
TwapLoopContinuing(i, slices, req, interval, outs, tr, placed) ==
    IF i > slices
    THEN [trace |-> tr, result |-> [success |-> TRUE, placed |-> placed]]
    ELSE LET t == Append(tr, CreateEvent(req, outs[i]))
         IN  IF outs[i] # "Accepted"
             THEN TwapLoopContinuing(i + 1, slices, req, interval, outs, t, placed)
             ELSE TwapLoopContinuing(i + 1, slices, req, interval, outs,
                                     Append(t, SleepEvent(interval)),
                                     Append(placed, OrderDict(Len(t), req)))

\* the for loop of execute, from slice i on; outs[i] is what the exchange
\* answers to the create_order call of slice i
RECURSIVE TwapLoop(_, _, _, _, _, _, _)
TwapLoop(i, slices, req, interval, outs, tr, placed) ==
    IF i > slices
    THEN [trace |-> tr, result |-> [success |-> TRUE, placed |-> placed]]
    ELSE LET t == Append(tr, CreateEvent(req, outs[i]))
         IN  IF outs[i] # "Accepted"
             THEN [trace |-> t, result |-> TwapFailure(placed, outs[i])]
             ELSE TwapLoop(i + 1, slices, req, interval, outs,
                           Append(t, SleepEvent(interval)),
                           Append(placed, OrderDict(Len(t), req)))

\* line 12 without the duration check
InvalidSlices(slices, duration_sec) == slices <= 0

\* line 12
InvalidParameters(slices, duration_sec) == slices <= 0 \/ duration_sec <= 0

\* execute with fewer slices when the minimum slice quantity would carry the
\* total above the target
execute_within_target(symbol, side, total_qty, duration_sec, slices, min_slice_qty, outs) ==
    IF InvalidParameters(slices, duration_sec)
    THEN [trace |-> << >>, result |-> Failure("Invalid slices/duration")]
    ELSE LET interval == Frac(duration_sec, slices)
             slice_qty == FracMax(Frac(total_qty, slices), Frac(min_slice_qty, 1))
             req == Request(symbol, Upper(side), "MARKET", slice_qty, NonePrice, NonePrice)
             fitting == IF min_slice_qty * slices > total_qty
                        THEN total_qty \div min_slice_qty
                        ELSE slices
         IN  TwapLoop(1, fitting, req, interval, outs, << >>, << >>)

execute(symbol, side, total_qty, duration_sec, slices, min_slice_qty, outs) ==
    IF InvalidParameters(slices, duration_sec)
    THEN [trace |-> << >>, result |-> Failure("Invalid slices/duration")]
    ELSE LET interval == Frac(duration_sec, slices)
             slice_qty == FracMax(Frac(total_qty, slices), Frac(min_slice_qty, 1))
             req == Request(symbol, Upper(side), "MARKET", slice_qty, NonePrice, NonePrice)
         IN  TwapLoop(1, slices, req, interval, outs, << >>, << >>)

----------------------------------------------------------------------------
(* GridTrader.build_grid *)

\* the two offsets of build_grid with their signs exchanged
GridPriceSwapped(side, base_price, step_pct, i) ==
    IF Upper(side) = "BUY"
    THEN Frac(base_price * (step_pct.d + step_pct.n * i), step_pct.d)
    ELSE Frac(base_price * (step_pct.d - step_pct.n * i), step_pct.d)

\* base_price * (1 - step_pct * i) and base_price * (1 + step_pct * i)
GridPrice(side, base_price, step_pct, i) ==
    IF Upper(side) = "BUY"
    THEN Frac(base_price * (step_pct.d - step_pct.n * i), step_pct.d)
    ELSE Frac(base_price * (step_pct.d + step_pct.n * i), step_pct.d)

\* the side passed on as typed
GridRequestAsTyped(symbol, side, qty, price) ==
    Request(symbol, Upper(side), "LIMIT", qty, price, NonePrice)

GridRequest(symbol, side, qty, price) ==
    IF Upper(side) = "BUY"
    THEN Request(symbol, "BUY", "LIMIT", qty, price, NonePrice)
    ELSE Request(symbol, "SELL", "LIMIT", qty, price, NonePrice)

\* the for loop of build_grid, from level i on
RECURSIVE GridLoop(_, _, _, _, _, _, _, _, _)
GridLoop(i, levels, symbol, base_price, step_pct, qty, side, outs, st) ==
    IF i > levels
    THEN [trace |-> st.trace, result |-> [success |-> TRUE, orders |-> st.orders]]
    ELSE LET req == GridRequest(symbol, side, qty, GridPrice(side, base_price, step_pct, i))
             t == Append(st.trace, CreateEvent(req, outs[i]))
         IN  IF outs[i] # "Accepted"
             THEN [trace |-> t, result |-> Failure(outs[i])]
             ELSE GridLoop(i + 1, levels, symbol, base_price, step_pct, qty, side, outs,
                           [trace |-> t, orders |-> Append(st.orders, OrderDict(Len(t), req))])

build_grid(symbol, base_price, levels, step_pct, qty, side, outs) ==
    GridLoop(1, levels, symbol, base_price, step_pct, qty, side, outs,
             [trace |-> << >>, orders |-> << >>])

----------------------------------------------------------------------------
(* OCOManager.submit *)

OcoEvent(req, outcome) == [ev |-> "create_oco_order", req |-> req, outcome |-> outcome]

\* lines 28-40: the client-side pair, after the calls in tr
OcoFallback(symbol, exit_side, qty, tp_price, sl_price, tpOut, slOut, tr) ==
    LET tpReq == Request(symbol, exit_side, "LIMIT", qty, tp_price, NonePrice)
        slReq == Request(symbol, exit_side, "STOP_LOSS_LIMIT", qty, sl_price, sl_price)
        t1 == Append(tr, CreateEvent(tpReq, tpOut))
        t2 == Append(t1, CreateEvent(slReq, slOut))
    IN  IF tpOut # "Accepted"
        THEN [trace |-> t1, result |-> Failure(tpOut)]
        ELSE IF slOut # "Accepted"
        THEN [trace |-> t2, result |-> Failure(slOut)]
        ELSE [trace |-> t2,
              result |-> [success |-> TRUE, tp |-> OrderDict(Len(t1), tpReq),
                          sl |-> OrderDict(Len(t2), slReq), mode |-> "client"]]

\* the native call was made and returned: line 24 returns its result
NativeFallsThrough(hasNative, nativeOut) == FALSE

NativeReturned(hasNative, nativeOut) == hasNative /\ nativeOut = "Accepted"

\* hasNative is hasattr(self.client, 'create_oco_order')
submit(symbol, side, qty, tp_price, sl_price, hasNative, nativeOut, tpOut, slOut) ==
    LET exit_side == IF Upper(side) = "BUY" THEN "SELL" ELSE "BUY"
        ocoReq == [symbol |-> symbol, side |-> exit_side, quantity |-> qty,
                   price |-> tp_price, stopPrice |-> sl_price,
                   stopLimitPrice |-> sl_price]
        t0 == << OcoEvent(ocoReq, nativeOut) >>
    IN  IF NativeReturned(hasNative, nativeOut)
        THEN [trace |-> t0,
              result |-> [success |-> TRUE,
                          oco |-> [orderListId |-> 1, symbol |-> symbol],
                          mode |-> "native"]]
        ELSE OcoFallback(symbol, exit_side, qty, tp_price, sl_price, tpOut, slOut,
                         IF hasNative THEN t0 ELSE << >>)

----------------------------------------------------------------------------
(* PriceFeed: the tick callbacks and the readers *)

Writers == 1..NumWriters
Readers == (NumWriters + 1)..(NumWriters + NumReaders)
Threads == Writers \cup Readers
NoThread == 0

FeedSymbols == {"BTCUSDT", "ETHUSDT"}
PriceStrings == {"1", "2"}

\* the ticker messages the socket delivers: well formed, without 's',
\* without 'c', and with a 'c' that is not a number
TickMsgs ==
    [s : FeedSymbols, c : PriceStrings]
        \cup {[c |-> "1"], [s |-> "BTCUSDT"], [s |-> "BTCUSDT", c |-> "abc"]}

NoMsg == [none |-> TRUE]
NoReturn == -2

\* float(): the strings that parse
IsNumber(str) == str \in {"1", "2"}
ParseFloat(str) == CASE str = "1" -> 1 [] str = "2" -> 2

\* the prices the well-formed messages carry
FeedPrices == {ParseFloat(c) : c \in PriceStrings}

\* lines 18-19 raise for a message without 's', without 'c' or with a bad 'c'
WellFormed(m) == "s" \in DOMAIN m /\ "c" \in DOMAIN m /\ IsNumber(m.c)

\* self.latest.get(symbol)
DictGet(d, key) == IF key \in DOMAIN d THEN d[key] ELSE NonePrice

\* d.setdefault(key, value)
DictSetDefault(d, key, value) ==
    [k \in DOMAIN d \cup {key} |-> IF k \in DOMAIN d THEN d[k] ELSE value]

\* d[key] = value
DictSet(d, key, value) ==
    [k \in DOMAIN d \cup {key} |-> IF k = key THEN value ELSE d[k]]

\* Lock.acquire: it is taken only when no thread holds it
LockFreeAlways(l) == TRUE

LockFree(l) == l = NoThread

\* the socket calls _on_ticker(msg) on thread w: lines 18-19 parse the
\* message, and a message that does not parse raises into the except branch
OnTickerFrom(w, msgs) ==
    /\ tpc[w] = "idle"
    /\ \E m \in msgs :
        /\ msg' = [msg EXCEPT ![w] = m]
        /\ tpc' = [tpc EXCEPT ![w] = IF WellFormed(m) THEN "acquire" ELSE "except"]
    /\ UNCHANGED <<latest, lock, want, ret, delivered, lastTick>>

OnTicker(w) == OnTickerFrom(w, TickMsgs)

\* lines 22-23 without the try: the exception leaves the callback
ParseErrorUncaught(w) ==
    /\ tpc[w] = "except"
    /\ tpc' = [tpc EXCEPT ![w] = "crashed"]
    /\ UNCHANGED <<latest, lock, msg, want, ret, delivered, lastTick>>

\* lines 22-23: the parse error is logged and the callback returns
ParseError(w) ==
    /\ tpc[w] = "except"
    /\ tpc' = [tpc EXCEPT ![w] = "idle"]
    /\ msg' = [msg EXCEPT ![w] = NoMsg]
    /\ UNCHANGED <<latest, lock, want, ret, delivered, lastTick>>

\* 'with self._lock:' entered, by a callback or by a reader
Acquire(t) ==
    /\ tpc[t] = "acquire"
    /\ LockFree(lock)
    /\ lock' = t
    /\ tpc' = [tpc EXCEPT ![t] = IF t \in Writers THEN "write" ELSE "read"]
    /\ UNCHANGED <<latest, msg, want, ret, delivered, lastTick>>

\* line 21: self.latest[symbol] = price
Write(w) ==
    /\ tpc[w] = "write"
    /\ latest' = DictSet(latest, msg[w].s, ParseFloat(msg[w].c))
    /\ delivered' = delivered \cup {<<msg[w].s, ParseFloat(msg[w].c)>>}
    /\ tpc' = [tpc EXCEPT ![w] = "release"]
    /\ lastTick' = [lastTick EXCEPT ![msg[w].s] = ParseFloat(msg[w].c)]
    /\ UNCHANGED <<lock, msg, want, ret>>

\* a thread calls get_price(symbol)
GetPrice(r) ==
    /\ tpc[r] = "idle"
    /\ \E symbol \in FeedSymbols : want' = [want EXCEPT ![r] = symbol]
    /\ ret' = [ret EXCEPT ![r] = NoReturn]
    /\ tpc' = [tpc EXCEPT ![r] = "acquire"]
    /\ UNCHANGED <<latest, lock, msg, delivered, lastTick>>

\* line 27: return self.latest.get(symbol)
Read(r) ==
    /\ tpc[r] = "read"
    /\ ret' = [ret EXCEPT ![r] = DictGet(latest, want[r])]
    /\ tpc' = [tpc EXCEPT ![r] = "release"]
    /\ UNCHANGED <<latest, lock, msg, want, delivered, lastTick>>

\* the block left without releasing the lock
ReleaseKeepsLock(t) ==
    /\ tpc[t] = "release"
    /\ tpc' = [tpc EXCEPT ![t] = "idle"]
    /\ msg' = IF t \in Writers THEN [msg EXCEPT ![t] = NoMsg] ELSE msg
    /\ want' = IF t \in Readers THEN [want EXCEPT ![t] = "none"] ELSE want
    /\ ret' = IF t \in Readers THEN [ret EXCEPT ![t] = NoReturn] ELSE ret
    /\ UNCHANGED <<latest, lock, delivered, lastTick>>

\* the with block is left
Release(t) ==
    /\ tpc[t] = "release"
    /\ lock' = NoThread
    /\ tpc' = [tpc EXCEPT ![t] = "idle"]
    /\ msg' = IF t \in Writers THEN [msg EXCEPT ![t] = NoMsg] ELSE msg
    /\ want' = IF t \in Readers THEN [want EXCEPT ![t] = "none"] ELSE want
    /\ ret' = IF t \in Readers THEN [ret EXCEPT ![t] = NoReturn] ELSE ret
    /\ UNCHANGED <<latest, delivered, lastTick>>

----------------------------------------------------------------------------
(* Python floats: IEEE-754 binary64, positive normal values.  A float is   *)
(* [m, e] with value m * 2^e, m a natural of exactly Precision bits kept   *)
(* as a sequence of limbs, least significant first.                        *)

LimbBits == 16
LimbBase == 2 ^ LimbBits
Precision == 53

\* the limbs without leading zero limbs
RECURSIVE BigNorm(_)
BigNorm(a) ==
    IF a # << >> /\ a[Len(a)] = 0 THEN BigNorm(SubSeq(a, 1, Len(a) - 1)) ELSE a

RECURSIVE BigFromNat(_)
BigFromNat(n) ==
    IF n = 0 THEN << >> ELSE <<n % LimbBase>> \o BigFromNat(n \div LimbBase)

RECURSIVE BigAddCarry(_, _, _)
BigAddCarry(a, b, c) ==
    IF a = << >> /\ b = << >>
    THEN IF c = 0 THEN << >> ELSE <<c>>
    ELSE LET x == (IF a = << >> THEN 0 ELSE Head(a))
                  + (IF b = << >> THEN 0 ELSE Head(b)) + c
         IN  <<x % LimbBase>>
             \o BigAddCarry(IF a = << >> THEN a ELSE Tail(a),
                            IF b = << >> THEN b ELSE Tail(b), x \div LimbBase)

BigAdd(a, b) == BigAddCarry(a, b, 0)

\* quotient and remainder of a by a natural n < 2^14
BigDivMod(a, n) ==
    LET r[i \in 1..(Len(a) + 1)] ==
            IF i = Len(a) + 1 THEN 0 ELSE (r[i + 1] * LimbBase + a[i]) % n
    IN  [q |-> BigNorm([i \in 1..Len(a) |-> (r[i + 1] * LimbBase + a[i]) \div n]),
         r |-> r[1]]

\* a * n + c for naturals n, c < 2^15
RECURSIVE BigMulAdd(_, _, _)
BigMulAdd(a, n, c) ==
    IF a = << >>
    THEN IF c = 0 THEN << >> ELSE <<c>>
    ELSE LET x == Head(a) * n + c
         IN  <<x % LimbBase>> \o BigMulAdd(Tail(a), n, x \div LimbBase)

\* a * 2^k: whole limbs first, then the remaining bits
BigShiftLeft(a, k) ==
    IF a = << >>
    THEN a
    ELSE [i \in 1..(k \div LimbBits) |-> 0] \o BigMulAdd(a, 2 ^ (k % LimbBits), 0)

RECURSIVE BitLenNat(_)
BitLenNat(n) == IF n = 0 THEN 0 ELSE 1 + BitLenNat(n \div 2)

BitLen(a) ==
    IF a = << >> THEN 0 ELSE LimbBits * (Len(a) - 1) + BitLenNat(a[Len(a)])

BigLess(a, b) ==
    IF Len(a) # Len(b)
    THEN Len(a) < Len(b)
    ELSE \E i \in 1..Len(a) :
            a[i] < b[i] /\ \A j \in (i + 1)..Len(a) : a[j] = b[j]

\* x without its k lowest bits, k >= 1; guard is the highest bit dropped,
\* sticky says whether anything below it was set
RECURSIVE ShiftRight(_, _, _)
ShiftRight(x, k, inexact) ==
    IF k < LimbBits - 1
    THEN LET d == BigDivMod(x, 2 ^ k)
             half == 2 ^ (k - 1)
         IN  [x |-> d.q, guard |-> d.r >= half, sticky |-> inexact \/ d.r % half # 0]
    ELSE LET d == BigDivMod(x, 2)
         IN  ShiftRight(d.q, k - 1, inexact \/ d.r # 0)

\* the element of a singleton set; {F(v) : v \in {x}} computes x once, however
\* often F uses it
Only(S) == CHOOSE r \in S : TRUE

\* x * 2^e (plus a positive fraction of 2^e when inexact) rounded to
\* Precision bits, to nearest and ties to even
Round(x, e, inexact) ==
    Only({LET n == BitLen(v)
          IN  IF n <= Precision
              THEN [m |-> BigShiftLeft(v, Precision - n), e |-> e - (Precision - n)]
              ELSE Only({LET up == s.guard /\ (s.sticky \/ s.x[1] % 2 = 1)
                             y == IF up THEN BigAdd(s.x, <<1>>) ELSE s.x
                         IN  IF BitLen(y) > Precision
                             THEN [m |-> BigDivMod(y, 2).q,
                                   e |-> e + (n - Precision) + 1]
                             ELSE [m |-> y, e |-> e + (n - Precision)] :
                         s \in {ShiftRight(v, n - Precision, inexact)}}) :
          v \in {x}})

\* float(n) of a positive int
FFromNat(n) == Round(BigFromNat(n), 0, FALSE)

\* x + y
FAdd(x, y) ==
    Only({LET e == IF a.e < b.e THEN a.e ELSE b.e
          IN  Round(BigAdd(BigShiftLeft(a.m, a.e - e), BigShiftLeft(b.m, b.e - e)),
                    e, FALSE) :
          a \in {x}, b \in {y}})

\* x / n for a positive int n
FDivInt(x, n) ==
    LET k == BitLenNat(n) + 2
    IN  Only({Only({Round(d.q, a.e - k, d.r # 0) :
                    d \in {BigDivMod(BigShiftLeft(a.m, k), n)}}) :
              a \in {x}})

\* x < y
FLess(x, y) ==
    \E a \in {x}, b \in {y} : a.e < b.e \/ (a.e = b.e /\ BigLess(a.m, b.m))

\* sum(d) of a non-empty deque: 0 + d[0] + d[1] + ..., added left to right
RECURSIVE FSum(_)
FSum(d) ==
    IF Len(d) = 1 THEN d[1] ELSE FAdd(FSum(SubSeq(d, 1, Len(d) - 1)), d[Len(d)])

----------------------------------------------------------------------------
(* SMACrossover *)

DefaultFast == 20
DefaultSlow == 50

\* the symbols bars arrive for
BarSymbols == {"BTCUSDT", "ETHUSDT"}

\* the window lengths a strategy is constructed with
Periods == 1..MaxPeriod

\* the closes of the bars, in tenths: '0.1' and '1.0'
Tenth == 10
CloseInputs == {1, 10}

\* float(ohlc['close']): the double nearest to the decimal
CloseFloats == [c \in CloseInputs |-> FDivInt(FFromNat(c), Tenth)]

\* list.append(x): nothing is evicted
AppendUnbounded(d, x, maxlen) == Append(d, x)

\* deque(maxlen=maxlen).append(x)
DequeAppend(d, x, maxlen) ==
    IF Len(d) = maxlen THEN Tail(d) \o <<x>> ELSE Append(d, x)

\* {'fast': deque(maxlen=self.fast), 'slow': deque(maxlen=self.slow)}
EmptyWindows == [fast |-> << >>, slow |-> << >>]

Signal(symbol, s) == [symbol |-> symbol, signal |-> s]

\* one pair of windows for all the symbols: those of any symbol seen so far
WindowsShared(b, symbol) ==
    IF DOMAIN b # {} THEN b[CHOOSE k \in DOMAIN b : TRUE] ELSE EmptyWindows

\* self.buf.setdefault(symbol, {...}): the windows of the symbol, empty ones
\* at its first bar
Windows(b, symbol) == IF symbol \in DOMAIN b THEN b[symbol] ELSE EmptyWindows

\* on_bar_close(symbol, {'close': close}): the new buf and the value returned
on_bar_close(symbol, close) ==
    LET x == CloseFloats[close]
        d0 == Windows(buf, symbol)
        d == [fast |-> DequeAppend(d0.fast, x, fast),
              slow |-> DequeAppend(d0.slow, x, slow)]
        f == FDivInt(FSum(d.fast), fast)
        s == FDivInt(FSum(d.slow), slow)
    IN  [buf |-> DictSet(buf, symbol, d),
         signal |-> IF Len(d.fast) = fast /\ Len(d.slow) = slow
                    THEN Only({IF FLess(sv, fv) THEN Signal(symbol, "LONG")
                               ELSE IF FLess(fv, sv) THEN Signal(symbol, "FLAT")
                               ELSE None : fv \in {f}, sv \in {s}})
                    ELSE None]

\* the bars passed to the strategy so far
BarCount ==
    LET RECURSIVE Count(_)
        Count(S) == IF S = {} THEN 0
                    ELSE LET s == CHOOSE t \in S : TRUE
                         IN  Len(closes[s]) + Count(S \ {s})
    IN  Count(BarSymbols)

\* one call of on_bar_close
OnBarClose ==
    /\ BarCount < MaxBars
    /\ \E symbol \in BarSymbols, close \in CloseInputs :
        \E r \in {on_bar_close(symbol, close)} :
            /\ buf' = r.buf
            /\ signal' = r.signal
            /\ bar' = [symbol |-> symbol, close |-> close]
            /\ closes' = [closes EXCEPT ![symbol] = Append(@, close)]
    /\ UNCHANGED <<fast, slow, orderVars, feedVars, bt, apiVars>>

----------------------------------------------------------------------------
(* Backtester *)

\* position = 0.0
FlatPosition == 0

\* a second unit bought: position = 2.0
DoublePosition == FlatPosition + 2

\* position = 1.0
LongPosition == 1

\* no run has been started
NoRun ==
    [pc |-> "idle", symbol |-> "none", bars |-> 0, equity |-> 0,
     position |-> FlatPosition, last_price |-> NonePrice, trades |-> << >>,
     ret |-> None]

\* a strategy constructed anew for the run: its buf is empty
FreshStrategy(b) == << >>

\* Backtester(strategy): self.strategy is the one instance main constructed
SharedStrategy(b) == b

\* line 17 without the position test
EntersAlways(sig, position) == sig.signal = "LONG"

\* line 17
Enters(sig, position) == sig.signal = "LONG" /\ position <= 0

\* line 21 without the position test
ExitsAlways(sig, position) == sig.signal = "FLAT"

\* line 21
Exits(sig, position) == sig.signal = "FLAT" /\ position > 0

Trade(action, price) == [action |-> action, price |-> price]

\* lines 13-24: the locals after one bar whose signal is sig
AfterBar(b, close, sig) ==
    LET c == [b EXCEPT !.last_price = close, !.bars = @ + 1]
    IN  IF IsNone(sig) THEN c
        ELSE IF Enters(sig, c.position)
        THEN [c EXCEPT !.position = LongPosition,
                       !.trades = Append(@, Trade("BUY", c.last_price))]
        ELSE IF Exits(sig, c.position)
        THEN [c EXCEPT !.position = FlatPosition,
                       !.trades = Append(@, Trade("SELL", c.last_price))]
        ELSE c

\* bt = Backtester(strategy); lines 8-11: run(symbol, bars) is entered
Run ==
    /\ bt.pc \in {"idle", "done"}
    /\ \E symbol \in BarSymbols :
        bt' = [pc |-> "loop", symbol |-> symbol, bars |-> 0, equity |-> 0,
               position |-> FlatPosition, last_price |-> NonePrice,
               trades |-> << >>, ret |-> None]
    /\ buf' = SharedStrategy(buf)
    /\ UNCHANGED <<orderVars, feedVars, fast, slow, bar, signal, closes, apiVars>>

\* lines 12-24: one bar of the loop
RunBar ==
    /\ bt.pc = "loop"
    /\ BarCount < MaxBars
    /\ \E close \in CloseInputs :
        \E r \in {on_bar_close(bt.symbol, close)} :
            /\ buf' = r.buf
            /\ signal' = r.signal
            /\ bar' = [symbol |-> bt.symbol, close |-> close]
            /\ closes' = [closes EXCEPT ![bt.symbol] = Append(@, close)]
            /\ bt' = AfterBar(bt, close, r.signal)
    /\ UNCHANGED <<fast, slow, orderVars, feedVars, apiVars>>

\* line 25: the bars are exhausted
RunReturn ==
    /\ bt.pc = "loop"
    /\ bt' = [bt EXCEPT !.pc = "done",
                        !.ret = [equity |-> bt.equity, trades |-> bt.trades]]
    /\ UNCHANGED <<orderVars, feedVars, smaVars, apiVars>>

----------------------------------------------------------------------------
(* The HTTP API and the menu options that start the feed and the API *)

\* Services(price_feed=price_feed)
Services(pf) == [price_feed |-> pf]

\* the feed main holds at the time of the request
CurrentFeed(services, current) == current

\* services.price_feed: the feed the Services object was constructed with
ServicesFeed(services, current) == services.price_feed

\* {'symbol': symbol, 'price': price}
PriceBody(symbol, price) == [symbol |-> symbol, price |-> price]

\* option 11: the feed is constructed and started unless there is one
StartWebSocket ==
    /\ price_feed = "None"
    /\ price_feed' = "PriceFeed"
    /\ UNCHANGED <<api_thread, api_services, response>>
    /\ UNCHANGED <<orderVars, feedVars, smaVars, bt>>

\* option 13: the API is started unless it is running
StartApi ==
    /\ api_thread = "None"
    /\ api_services' = Services(price_feed)
    /\ api_thread' = "Thread"
    /\ UNCHANGED <<price_feed, response>>
    /\ UNCHANGED <<orderVars, feedVars, smaVars, bt>>

\* GET /prices/<symbol>: get_price reads latest under the lock, at an
\* instant when no callback holds it; without a feed the price is null
Price(symbol) ==
    /\ api_thread = "Thread"
    /\ \E pf \in {ServicesFeed(api_services, price_feed)} :
        /\ pf # "None" => LockFree(lock)
        /\ response' = PriceBody(symbol, IF pf # "None"
                                         THEN DictGet(latest, symbol)
                                         ELSE NonePrice)
    /\ UNCHANGED <<price_feed, api_thread, api_services>>
    /\ UNCHANGED <<orderVars, feedVars, smaVars, bt>>

----------------------------------------------------------------------------
(* State machine of the command loop *)

InitOrders ==
    /\ pc = "menu"
    /\ op = "none"
    /\ args = << >>
    /\ trace = << >>
    /\ result = << >>

InitFeed ==
    /\ latest = << >>
    /\ lock = NoThread
    /\ tpc = [t \in Threads |-> "idle"]
    /\ msg = [t \in Writers |-> NoMsg]
    /\ want = [t \in Readers |-> "none"]
    /\ ret = [t \in Readers |-> NoReturn]
    /\ delivered = {}
    /\ lastTick = [s \in FeedSymbols |-> NonePrice]

\* strategy = SMACrossover()
InitStrategy ==
    /\ fast = DefaultFast
    /\ slow = DefaultSlow
    /\ buf = << >>
    /\ bar = None
    /\ signal = None
    /\ closes = [s \in BarSymbols |-> << >>]
    /\ bt = NoRun

\* price_feed = None, api_thread = None, api_services = None
InitMain ==
    /\ price_feed = "None"
    /\ api_thread = "None"
    /\ api_services = None
    /\ response = None

\* option 11 has been chosen
FeedStarted ==
    /\ price_feed = "PriceFeed"
    /\ api_thread = "None"
    /\ api_services = None
    /\ response = None

Init == InitOrders /\ InitFeed /\ InitStrategy /\ InitMain

\* the feed runs
InitStarted == InitOrders /\ InitFeed /\ InitStrategy /\ FeedStarted

\* one handler ran to completion
Ran(name, a, r) ==
    /\ pc' = "done"
    /\ op' = name
    /\ args' = a
    /\ trace' = r.trace
    /\ result' = r.result
    /\ UNCHANGED <<feedVars, smaVars, bt, apiVars>>

\* menu option 1
PlaceMarketOrder ==
    /\ pc = "menu"
    /\ \E symbol \in SymbolInputs, side \in SideInputs, quantity \in Quantities,
       info \in [1..2 -> BOOLEAN], outcome \in Outcomes, saveOk \in BOOLEAN :
        Ran("place_market_order",
            [symbol |-> symbol, side |-> side, quantity |-> quantity],
            place_market_order(symbol, side, quantity, info, outcome, saveOk))

\* menu option 2
PlaceLimitOrder ==
    /\ pc = "menu"
    /\ \E symbol \in SymbolInputs, side \in SideInputs, quantity \in Quantities,
       price \in Prices, info \in [1..3 -> BOOLEAN], outcome \in Outcomes,
       saveOk \in BOOLEAN :
        Ran("place_limit_order",
            [symbol |-> symbol, side |-> side, quantity |-> quantity, price |-> price],
            place_limit_order(symbol, side, quantity, price, info, outcome, saveOk))

\* menu option 3
PlaceStopLimitOrder ==
    /\ pc = "menu"
    /\ \E symbol \in SymbolInputs, side \in SideInputs, quantity \in Quantities,
       price \in Prices, stop_price \in Prices, info \in [1..4 -> BOOLEAN],
       outcome \in Outcomes, saveOk \in BOOLEAN :
        Ran("place_stop_limit_order",
            [symbol |-> symbol, side |-> side, quantity |-> quantity, price |-> price,
             stop_price |-> stop_price],
            place_stop_limit_order(symbol, side, quantity, price, stop_price, info,
                                   outcome, saveOk))

\* menu option 8
SubmitOCO ==
    /\ pc = "menu"
    /\ \E symbol \in SymbolInputs, side \in SideInputs, qty \in Quantities,
          tp_price \in Prices, sl_price \in Prices, hasNative \in BOOLEAN,
          nativeOut \in Outcomes, tpOut \in Outcomes, slOut \in Outcomes :
        Ran("submit",
            [symbol |-> symbol, side |-> side, qty |-> qty, tp_price |-> tp_price,
             sl_price |-> sl_price, hasNative |-> hasNative],
            submit(symbol, side, qty, tp_price, sl_price, hasNative, nativeOut,
                   tpOut, slOut))

\* menu option 9
ExecuteTWAP ==
    /\ pc = "menu"
    /\ \E symbol \in SymbolInputs, side \in SideInputs, total_qty \in Quantities,
          duration_sec \in Durations, slices \in SliceCounts,
          min_slice_qty \in MinSliceQtys :
        \E outs \in [1..slices -> Outcomes] :
            Ran("execute",
                [symbol |-> symbol, side |-> side, total_qty |-> total_qty,
                 duration_sec |-> duration_sec, slices |-> slices,
                 min_slice_qty |-> min_slice_qty],
                execute(symbol, side, total_qty, duration_sec, slices, min_slice_qty, outs))

\* menu option 10
BuildGrid ==
    /\ pc = "menu"
    /\ \E symbol \in SymbolInputs, side \in SideInputs, base_price \in BasePrices,
          levels \in LevelCounts, step_pct \in StepPcts, qty \in Quantities :
        \E outs \in [1..levels -> Outcomes] :
            Ran("build_grid",
                [symbol |-> symbol, side |-> side, base_price |-> base_price,
                 levels |-> levels, step_pct |-> step_pct, qty |-> qty],
                build_grid(symbol, base_price, levels, step_pct, qty, side, outs))

\* validate_order_params called on its own, as test_bot.py does
CallValidate ==
    /\ pc = "menu"
    /\ \E symbol \in SymbolInputs, side \in SideInputs, order_type \in TypeInputs,
          quantity \in Quantities, price \in Prices \cup {NonePrice}, ok \in BOOLEAN :
        Ran("validate_order_params",
            [symbol |-> symbol, side |-> side, order_type |-> order_type,
             quantity |-> quantity, price |-> price],
            [trace |-> ValidateEvents(symbol, side, order_type, quantity, price, ok),
             result |-> [valid |-> validate_order_params(symbol, side, order_type,
                                                         quantity, price, ok)]])

\* the command loop prints the result and prompts again
Menu ==
    /\ pc = "done"
    /\ pc' = "menu"
    /\ op' = "none"
    /\ args' = << >>
    /\ trace' = << >>
    /\ result' = << >>
    /\ UNCHANGED <<feedVars, smaVars, bt, apiVars>>

NextOrders ==
    \/ PlaceMarketOrder
    \/ PlaceLimitOrder
    \/ PlaceStopLimitOrder
    \/ SubmitOCO
    \/ ExecuteTWAP
    \/ BuildGrid
    \/ Menu

SpecOrders == Init /\ [][NextOrders]_vars

NextValidate ==
    \/ CallValidate
    \/ Menu

SpecValidate == Init /\ [][NextValidate]_vars

NextFeed ==
    \/ \E w \in Writers : OnTicker(w) /\ UNCHANGED <<orderVars, smaVars, bt, apiVars>>
    \/ \E w \in Writers : ParseError(w) /\ UNCHANGED <<orderVars, smaVars, bt, apiVars>>
    \/ \E t \in Threads : Acquire(t) /\ UNCHANGED <<orderVars, smaVars, bt, apiVars>>
    \/ \E w \in Writers : Write(w) /\ UNCHANGED <<orderVars, smaVars, bt, apiVars>>
    \/ \E r \in Readers : GetPrice(r) /\ UNCHANGED <<orderVars, smaVars, bt, apiVars>>
    \/ \E r \in Readers : Read(r) /\ UNCHANGED <<orderVars, smaVars, bt, apiVars>>
    \/ \E t \in Threads : Release(t) /\ UNCHANGED <<orderVars, smaVars, bt, apiVars>>

SpecFeed == InitStarted /\ [][NextFeed]_vars

\* the steps a thread takes on its own once a callback or a call has begun
Running(t) ==
    /\ \/ t \in Writers /\ (ParseError(t) \/ Write(t))
       \/ t \in Readers /\ Read(t)
       \/ Release(t)
    /\ UNCHANGED <<orderVars, smaVars, bt, apiVars>>

\* the thread is given the lock
Granted(t) == Acquire(t) /\ UNCHANGED <<orderVars, smaVars, bt, apiVars>>

\* a fair scheduler: a running thread keeps running, and a thread that can
\* take the lock again and again does take it; ticks and get_price calls
\* arrive as they please
FairScheduling ==
    \A t \in Threads : WF_vars(Running(t)) /\ SF_vars(Granted(t))

\* whether a callback or a call returns does not depend on the price a tick
\* carries nor on how it is malformed: one price and one malformed tick
FairTickMsgs ==
    [s : FeedSymbols, c : {"1"}] \cup {[s |-> "BTCUSDT", c |-> "abc"]}

NextFeedFair ==
    \/ \E w \in Writers : OnTickerFrom(w, FairTickMsgs) /\ UNCHANGED <<orderVars, smaVars, bt, apiVars>>
    \/ \E w \in Writers : ParseError(w) /\ UNCHANGED <<orderVars, smaVars, bt, apiVars>>
    \/ \E t \in Threads : Acquire(t) /\ UNCHANGED <<orderVars, smaVars, bt, apiVars>>
    \/ \E w \in Writers : Write(w) /\ UNCHANGED <<orderVars, smaVars, bt, apiVars>>
    \/ \E r \in Readers : GetPrice(r) /\ UNCHANGED <<orderVars, smaVars, bt, apiVars>>
    \/ \E r \in Readers : Read(r) /\ UNCHANGED <<orderVars, smaVars, bt, apiVars>>
    \/ \E t \in Threads : Release(t) /\ UNCHANGED <<orderVars, smaVars, bt, apiVars>>

SpecFeedFair == InitStarted /\ [][NextFeedFair]_vars /\ FairScheduling

\* the menu options 11 and 13, requests to the price endpoint, and the
\* callbacks of the feed once it has been started
NextApi ==
    \/ StartWebSocket
    \/ StartApi
    \/ \E symbol \in FeedSymbols : Price(symbol)
    \/ /\ price_feed # "None"
       /\ \E w \in Writers : OnTickerFrom(w, FairTickMsgs)
       /\ UNCHANGED <<orderVars, smaVars, bt, apiVars>>
    \/ \E w \in Writers : ParseError(w) /\ UNCHANGED <<orderVars, smaVars, bt, apiVars>>
    \/ \E w \in Writers : Acquire(w) /\ UNCHANGED <<orderVars, smaVars, bt, apiVars>>
    \/ \E w \in Writers : Write(w) /\ UNCHANGED <<orderVars, smaVars, bt, apiVars>>
    \/ \E w \in Writers : Release(w) /\ UNCHANGED <<orderVars, smaVars, bt, apiVars>>

SpecApi == Init /\ [][NextApi]_vars

\* a strategy constructed with any two window lengths
InitSMA ==
    /\ InitOrders
    /\ InitFeed
    /\ fast \in Periods
    /\ slow \in Periods
    /\ buf = << >>
    /\ bar = None
    /\ signal = None
    /\ closes = [s \in BarSymbols |-> << >>]
    /\ bt = NoRun
    /\ InitMain

NextSMA == OnBarClose

SpecSMA == InitSMA /\ [][NextSMA]_vars

\* the thread of one ticker socket
SocketThread == CHOOSE w \in Writers : TRUE

\* one step of a callback on the thread w
Callback(w) ==
    /\ \/ OnTickerFrom(w, FairTickMsgs)
       \/ ParseError(w)
       \/ Acquire(w)
       \/ Write(w)
       \/ Release(w)
    /\ UNCHANGED <<orderVars, smaVars, bt, apiVars>>

\* bars close on the main thread while the ticks of one socket arrive
NextSymbols ==
    \/ OnBarClose
    \/ Callback(SocketThread)

\* a strategy of any two window lengths, and the feed started
InitSymbols ==
    /\ InitOrders
    /\ InitFeed
    /\ fast \in Periods
    /\ slow \in Periods
    /\ buf = << >>
    /\ bar = None
    /\ signal = None
    /\ closes = [s \in BarSymbols |-> << >>]
    /\ bt = NoRun
    /\ FeedStarted

SpecSymbols == InitSymbols /\ [][NextSymbols]_vars

NextBacktest ==
    \/ Run
    \/ RunBar
    \/ RunReturn

SpecBacktest == InitSMA /\ [][NextBacktest]_vars

----------------------------------------------------------------------------
(* Reading the call trace of the handler that ran *)

SingleOps == {"place_market_order", "place_limit_order", "place_stop_limit_order"}

\* positions of the create_order calls
CreateIdx == {i \in DOMAIN trace : trace[i].ev = "create_order"}

AcceptedIdx == {i \in CreateIdx : trace[i].outcome = "Accepted"}
FailedIdx == {i \in CreateIdx : trace[i].outcome # "Accepted"}

\* the native OCO call was made, and its outcome
NativeTried == trace # << >> /\ trace[1].ev = "create_oco_order"
NativeOutcome == trace[1].outcome

\* the orders the exchange accepted, in submission order
RECURSIVE AcceptedFrom(_)
AcceptedFrom(i) ==
    IF i > Len(trace) THEN << >>
    ELSE IF i \in AcceptedIdx
         THEN << OrderDict(i, trace[i].req) >> \o AcceptedFrom(i + 1)
         ELSE AcceptedFrom(i + 1)

AcceptedOrders == AcceptedFrom(1)

\* how many times in a row, ending at call i, the request of call i was
\* submitted after a transient failure
Attempts(i) ==
    Cardinality({j \in 1..i : \A k \in j..i :
        /\ trace[k].ev = "create_order"
        /\ trace[k].req = trace[i].req
        /\ (k < i => trace[k].outcome = "Transient")})

----------------------------------------------------------------------------
(* Every order is validated before it is submitted *)

\* C1: every create_order call is preceded, in the same handler, by a run of
\* the order validator that passed the same symbol, side and order type.
C1_ValidatedBeforeSubmit ==
    \A i \in CreateIdx :
        \E j \in 1..(i - 1) :
            /\ trace[j].ev = "validate"
            /\ trace[j].reason = "ok"
            /\ trace[j].symbol = Upper(trace[i].req.symbol)
            /\ trace[j].side = trace[i].req.side
            /\ trace[j].type = trace[i].req.type

----------------------------------------------------------------------------
(* A quantity below one step *)

\* C2: a single order whose raw quantity is below one step of the instrument
\* is rejected without a create_order call, and no single order is submitted
\* with quantity zero.
C2_SubStepQuantityRejected ==
    op \in SingleOps =>
        /\ (/\ Upper(args.symbol) \in DOMAIN ExchangeInfo
            /\ HasLotSize(ExchangeInfo[Upper(args.symbol)])
            /\ args.quantity < ExchangeInfo[Upper(args.symbol)].stepSize)
           => (result.success = FALSE /\ CreateIdx = {})
        /\ \A i \in CreateIdx : trace[i].req.quantity # 0

----------------------------------------------------------------------------
(* Retry of transient failures *)

\* C3: a create_order call that fails with a transient error is followed by
\* another attempt of the same request, unless it was the third attempt.
C3_TransientRetried ==
    \A i \in CreateIdx :
        trace[i].outcome = "Transient" =>
            \/ Attempts(i) = 3
            \/ /\ i + 1 \in DOMAIN trace
               /\ trace[i + 1].ev = "create_order"
               /\ trace[i + 1].req = trace[i].req

----------------------------------------------------------------------------
(* OCO: take-profit placed, stop-loss failed *)

\* the fallback pair ran, the take-profit order was accepted and the
\* stop-loss order failed
TpPlacedSlFailed ==
    /\ op = "submit"
    /\ Cardinality(CreateIdx) = 2
    /\ Cardinality(AcceptedIdx) = 1
    /\ \E i \in AcceptedIdx : trace[i].req.type = "LIMIT"

\* C4: when the take-profit leg is accepted and the stop-loss leg fails, the
\* result of submit carries the take-profit order and marks the stop-loss
\* leg as failed.
C4_PartialOcoReported ==
    TpPlacedSlFailed =>
        /\ "tp" \in DOMAIN result
        /\ result.tp = AcceptedOrders[1]
        /\ "sl" \notin DOMAIN result
        /\ "error" \in DOMAIN result

----------------------------------------------------------------------------
(* Grid: a level fails *)

\* C5: when a level of build_grid fails after earlier levels were accepted,
\* the result carries the accepted orders together with the failure.
C5_GridPartialReturned ==
    (op = "build_grid" /\ FailedIdx # {} /\ AcceptedIdx # {}) =>
        /\ result.success = FALSE
        /\ "error" \in DOMAIN result
        /\ "orders" \in DOMAIN result
        /\ result.orders = AcceptedOrders

----------------------------------------------------------------------------
(* TWAP: a slice fails *)

\* C6: when a slice of execute fails, the failing call is the last call
\* made (no retry, no later slice, no cancel), the result has success =
\* False, and 'placed' holds exactly the orders of the earlier slices in
\* submission order.
C6_TwapStopsAtFirstFailure ==
    (op = "execute" /\ FailedIdx # {}) =>
        /\ FailedIdx = {Len(trace)}
        /\ \A i \in DOMAIN trace : trace[i].ev \in {"create_order", "sleep"}
        /\ result.success = FALSE
        /\ "placed" \in DOMAIN result
        /\ result.placed = AcceptedOrders
        /\ Len(result.placed) = Cardinality(CreateIdx) - 1
        /\ Len(result.placed) < args.slices

\* slice 3 failed after two slices were placed
C6_Witness ==
    /\ op = "execute"
    /\ FailedIdx # {}
    /\ args.slices = 3
    /\ Cardinality(AcceptedIdx) = 2

----------------------------------------------------------------------------
(* OCO: the fallback pair *)

\* C7: when the native order is unsupported or fails, exactly two fallback
\* orders are attempted: a LIMIT at the take-profit price, then a
\* STOP_LOSS_LIMIT at the stop-loss price, both on the opposite side and for
\* the input quantity.
C7_TwoFallbackOrders ==
    (op = "submit" /\ (~NativeTried \/ NativeOutcome # "Accepted")) =>
        LET n == Len(trace)
            exit_side == IF Upper(args.side) = "BUY" THEN "SELL" ELSE "BUY"
        IN  /\ Cardinality(CreateIdx) = 2
            /\ CreateIdx = {n - 1, n}
            /\ trace[n - 1].req = Request(args.symbol, exit_side, "LIMIT", args.qty,
                                          args.tp_price, NonePrice)
            /\ trace[n].req = Request(args.symbol, exit_side, "STOP_LOSS_LIMIT",
                                      args.qty, args.sl_price, args.sl_price)

----------------------------------------------------------------------------
(* OCO: native first *)

\* C8: submit makes the native call first whenever the client has it; when
\* the native call is accepted the result has mode 'native' and no
\* create_order call is made; a result of mode 'client' comes only after the
\* native call was unavailable or failed.
C8_NativeFirst ==
    op = "submit" =>
        /\ args.hasNative <=> NativeTried
        /\ \A i \in DOMAIN trace : trace[i].ev = "create_oco_order" => i = 1
        /\ (NativeTried /\ NativeOutcome = "Accepted") =>
               /\ result.success = TRUE
               /\ result.mode = "native"
               /\ CreateIdx = {}
        /\ ("mode" \in DOMAIN result /\ result.mode = "client") =>
               (~args.hasNative \/ NativeOutcome # "Accepted")

\* the native order was accepted
C8_Witness ==
    /\ op = "submit"
    /\ NativeTried
    /\ NativeOutcome = "Accepted"
    /\ result.mode = "native"

----------------------------------------------------------------------------
(* OCO: fatal native failure *)

\* C9: when the native order fails with a fatal error, submit returns a
\* failure and makes no create_order call.
C9_FatalNativeAborts ==
    (op = "submit" /\ NativeTried /\ NativeOutcome = "Fatal") =>
        /\ result.success = FALSE
        /\ CreateIdx = {}

----------------------------------------------------------------------------
(* PriceFeed: mutual exclusion *)

\* the thread is inside 'with self._lock:'
InSection(t) == tpc[t] \in {"write", "read", "release"}

\* C10: at most one thread is inside the locked section, and it is the one
\* holding the lock; every value get_price has returned is None or a price
\* some tick wrote in full for the symbol asked for.
C10_ExclusiveAndWhole ==
    /\ \A t, u \in Threads : (InSection(t) /\ InSection(u)) => t = u
    /\ \A t \in Threads : InSection(t) => lock = t
    /\ \A r \in Readers :
        ret[r] \in {NoReturn, NonePrice} \/ <<want[r], ret[r]>> \in delivered

\* a reader is inside the section with a price it has just read, while
\* every callback thread waits for the lock
C10_Witness ==
    \E r \in Readers :
        /\ tpc[r] = "release"
        /\ ret[r] \notin {NoReturn, NonePrice}
        /\ \A w \in Writers : tpc[w] = "acquire"

----------------------------------------------------------------------------
(* PriceFeed: the latest price *)

\* C11: the value get_price reads for a symbol is the price of the tick
\* written last for that symbol, and it is None exactly when no tick for the
\* symbol has been written (checked while the reader still holds the lock).
C11_LatestPriceReturned ==
    \A r \in Readers :
        tpc[r] = "release" =>
            /\ ret[r] = lastTick[want[r]]
            /\ ret[r] = NonePrice <=> ~(\E p \in FeedPrices : <<want[r], p>> \in delivered)

\* a reader has read price 1 for a symbol whose earlier tick carried price 2
C11_Witness ==
    \E r \in Readers :
        /\ tpc[r] = "release"
        /\ ret[r] = 1
        /\ <<want[r], 2>> \in delivered

----------------------------------------------------------------------------
(* PriceFeed: malformed ticks *)

\* a step of callback thread w that starts or ends with a message that does
\* not parse
HandlesMalformed(w) ==
    \/ tpc[w] = "except"
    \/ tpc'[w] = "except"

\* C12: a callback holding a malformed tick never enters the locked section,
\* its steps leave the latest-price mapping unchanged, and it returns to
\* idle, where the next tick is taken.
C12_MalformedDropped ==
    [][\A w \in Writers :
        /\ tpc'[w] \in {"idle", "except", "acquire", "write", "release"}
        /\ tpc'[w] \in {"acquire", "write", "release"} => WellFormed(msg'[w])
        /\ (HandlesMalformed(w) /\ tpc'[w] # tpc[w]) =>
               /\ latest' = latest
               /\ lastTick' = lastTick
               /\ tpc[w] = "except" => tpc'[w] = "idle"
               /\ tpc'[w] = "except" => ~WellFormed(msg'[w])]_vars

\* one callback thread holds a tick whose price does not parse while another
\* callback thread is writing its tick
C12_Witness ==
    \E w, v \in Writers :
        /\ w # v
        /\ tpc[w] = "except"
        /\ msg[w] = [s |-> "BTCUSDT", c |-> "abc"]
        /\ tpc[v] = "write"
        /\ latest # << >>

----------------------------------------------------------------------------
(* Quantization of quantity and price *)

\* the request of the create_order call of a single order
SingleRequest == trace[CHOOSE i \in CreateIdx : TRUE].req

\* the instrument of the symbol the handler was called with
Instrument == ExchangeInfo[Upper(args.symbol)]

\* out is the largest multiple of s that is not greater than q
IsFloorMultiple(out, q, s) ==
    /\ out >= 0
    /\ out % s = 0
    /\ out <= q
    /\ q - out < s
    /\ q < s => out = 0

\* C13: the quantity a single order submits is the largest multiple of the
\* step size not above the raw quantity (zero when the raw quantity is below
\* one step), and the price and stop price it submits are the largest
\* multiples of the tick size not above the raw prices, whenever the lookup
\* made by format_quantity or format_price found the instrument and its
\* step or tick size.
C13_QuantizedDown ==
    (op \in SingleOps /\ CreateIdx # {}) =>
        /\ (trace[3].ok /\ HasLotSize(Instrument)) =>
               IsFloorMultiple(SingleRequest.quantity, args.quantity, Instrument.stepSize)
        /\ (op # "place_market_order" /\ trace[4].ok /\ HasPriceFilter(Instrument)) =>
               IsFloorMultiple(SingleRequest.price, args.price, Instrument.tickSize)
        /\ (op = "place_stop_limit_order" /\ trace[5].ok /\ HasPriceFilter(Instrument)) =>
               IsFloorMultiple(SingleRequest.stopPrice, args.stop_price,
                               Instrument.tickSize)

\* a limit order of 3 units at price 1 on an instrument with step 2 and
\* tick 2 was submitted with quantity 2 and price 0
C13_Witness ==
    /\ op = "place_limit_order"
    /\ CreateIdx # {}
    /\ Upper(args.symbol) = "BTCUSDT"
    /\ Instrument.stepSize = 2
    /\ Instrument.tickSize = 2
    /\ args.quantity = 3
    /\ args.price = 1
    /\ SingleRequest.quantity = 2
    /\ SingleRequest.price = 0

----------------------------------------------------------------------------
(* Prices on the tick grid *)

\* the symbol of the request is listed by the exchange with a tick size
KnownSymbol(req) ==
    /\ Upper(req.symbol) \in DOMAIN ExchangeInfo
    /\ HasPriceFilter(ExchangeInfo[Upper(req.symbol)])

\* price is a whole multiple of the tick size of the request's symbol; the
\* prices of build_grid are fractions
OnTick(req, price) ==
    LET tick == ExchangeInfo[Upper(req.symbol)].tickSize
    IN  IF op = "build_grid"
        THEN price.d = 1 /\ price.n % tick = 0
        ELSE price % tick = 0

\* C14: every limit price and stop price passed to create_order is a whole
\* multiple of the instrument's tick size.
C14_PricesOnTick ==
    \A i \in CreateIdx :
        LET req == trace[i].req
        IN  (KnownSymbol(req) /\ req.type \in PricedTypes) =>
                /\ OnTick(req, req.price)
                /\ req.stopPrice # NonePrice => OnTick(req, req.stopPrice)

----------------------------------------------------------------------------
(* The order validator *)

\* the five checks of the validator on the arguments of the call
SymbolKnown == trace[1].ok /\ Upper(args.symbol) \in DOMAIN ExchangeInfo
SideValid == Upper(args.side) \in {"BUY", "SELL"}
TypeSupported ==
    Upper(args.order_type) \in {"MARKET", "LIMIT", "STOP_LOSS_LIMIT", "TAKE_PROFIT_LIMIT"}
QuantityPositive == args.quantity > 0
PricePresent ==
    Upper(args.order_type) \in {"LIMIT", "STOP_LOSS_LIMIT", "TAKE_PROFIT_LIMIT"}
        => (args.price # NonePrice /\ args.price > 0)

\* the reason of the first of the five checks that fails
FirstFailure ==
    CASE ~SymbolKnown -> "Invalid symbol"
      [] SymbolKnown /\ ~SideValid -> "Invalid side"
      [] SymbolKnown /\ SideValid /\ ~TypeSupported -> "Invalid order type"
      [] SymbolKnown /\ SideValid /\ TypeSupported /\ ~QuantityPositive
            -> "Invalid quantity"
      [] OTHER -> "Price required"

\* C15: validate_order_params accepts exactly when the symbol lookup finds
\* the symbol, the side is BUY or SELL, the type is supported, the quantity
\* is positive and a positive price is present when the type needs one; when
\* it rejects, the reason it reports is that of the first failing check, one
\* of five different reasons.
C15_ValidatorChecksInOrder ==
    op = "validate_order_params" =>
        LET accepted == /\ SymbolKnown
                        /\ SideValid
                        /\ TypeSupported
                        /\ QuantityPositive
                        /\ PricePresent
        IN  /\ result.valid <=> accepted
            /\ accepted => trace[2].reason = "ok"
            /\ ~accepted => trace[2].reason = FirstFailure

\* an order with an invalid side, quantity zero and no price was rejected
\* for its side
C15_Witness ==
    /\ op = "validate_order_params"
    /\ SymbolKnown
    /\ ~SideValid
    /\ ~QuantityPositive
    /\ ~PricePresent
    /\ result.valid = FALSE
    /\ trace[2].reason = "Invalid side"

----------------------------------------------------------------------------
(* Single orders: rejected by validation *)

\* the handler made a create_order or save_order call
SubmittedOrSaved ==
    \E i \in DOMAIN trace : trace[i].ev \in {"create_order", "save_order"}

\* C16: when validate_order_params rejects the order, or the stop price of a
\* stop-limit order is not positive, the place_*_order method returns
\* success = False with an error and makes no create_order and no
\* save_order call.
C16_RejectedNotSubmitted ==
    (/\ op \in SingleOps
     /\ \/ trace[2].reason # "ok"
        \/ op = "place_stop_limit_order" /\ args.stop_price <= 0) =>
        /\ result.success = FALSE
        /\ "error" \in DOMAIN result
        /\ ~SubmittedOrSaved

\* a limit order without a positive price was rejected
C16_Witness ==
    /\ op = "place_limit_order"
    /\ trace[2].reason = "Price required"
    /\ result.success = FALSE
    /\ result.error = "Invalid order parameters"

----------------------------------------------------------------------------
(* TWAP: invalid parameters *)

\* C17: execute called with slices <= 0 or duration_sec <= 0 returns the
\* invalid-parameters failure and makes no call at all: no order, no pause.
C17_TwapInvalidParameters ==
    (op = "execute" /\ (args.slices <= 0 \/ args.duration_sec <= 0)) =>
        /\ result = [success |-> FALSE, error |-> "Invalid slices/duration"]
        /\ trace = << >>

\* two slices over a duration of zero were refused
C17_Witness ==
    /\ op = "execute"
    /\ args.slices = 2
    /\ args.duration_sec = 0
    /\ result.success = FALSE

----------------------------------------------------------------------------
(* TWAP: a full run *)

\* the fraction f equals max(total_qty / slices, min_slice_qty)
IsSliceQty(f) ==
    \/ /\ f.n * args.slices = args.total_qty * f.d
       /\ args.total_qty >= args.min_slice_qty * args.slices
    \/ /\ f.n = args.min_slice_qty * f.d
       /\ args.min_slice_qty * args.slices >= args.total_qty

\* C18: when no slice fails, execute makes exactly `slices` create_order
\* calls, each a MARKET order of quantity max(total_qty / slices,
\* min_slice_qty), every pause lasts duration_sec / slices, and the result
\* is a success whose 'placed' list holds the `slices` orders in submission
\* order.
C18_TwapFullRun ==
    (op = "execute" /\ args.slices > 0 /\ args.duration_sec > 0 /\ FailedIdx = {}) =>
        /\ Cardinality(CreateIdx) = args.slices
        /\ \A i \in CreateIdx :
            /\ trace[i].req.type = "MARKET"
            /\ trace[i].req.side = Upper(args.side)
            /\ trace[i].req.symbol = args.symbol
            /\ IsSliceQty(trace[i].req.quantity)
        /\ \A i \in DOMAIN trace :
            trace[i].ev = "sleep" =>
                trace[i].interval.n * args.slices = args.duration_sec * trace[i].interval.d
        /\ result.success = TRUE
        /\ Len(result.placed) = args.slices
        /\ result.placed = AcceptedOrders

\* three slices of a total of 2 with a minimum slice of 1 were all placed
C18_Witness ==
    /\ op = "execute"
    /\ args.slices = 3
    /\ args.total_qty = 2
    /\ args.min_slice_qty = 1
    /\ result.success = TRUE
    /\ Len(result.placed) = 3

----------------------------------------------------------------------------
(* Grid: the level prices *)

\* the fraction p equals base_price * (1 - step_pct * i) for BUY and
\* base_price * (1 + step_pct * i) for SELL
IsLevelPrice(p, i) ==
    LET sp == args.step_pct
    IN  IF Upper(args.side) = "BUY"
        THEN p.n * sp.d = args.base_price * (sp.d - sp.n * i) * p.d
        ELSE p.n * sp.d = args.base_price * (sp.d + sp.n * i) * p.d

\* C19: for side BUY or SELL, the i-th call of build_grid is a LIMIT order
\* of level i on the requested side for the given quantity at the linear
\* offset price; all levels are submitted when none fails; base 100 with
\* step 0.01 gives 99, 98, 97 for BUY and 101, 102, 103 for SELL.
C19_GridLevelPrices ==
    (op = "build_grid" /\ Upper(args.side) \in {"BUY", "SELL"}) =>
        /\ \A i \in DOMAIN trace :
            /\ trace[i].ev = "create_order"
            /\ i <= args.levels
            /\ trace[i].req.type = "LIMIT"
            /\ trace[i].req.side = Upper(args.side)
            /\ trace[i].req.symbol = args.symbol
            /\ trace[i].req.quantity = args.qty
            /\ IsLevelPrice(trace[i].req.price, i)
            /\ (args.base_price = 100 /\ args.step_pct = [n |-> 1, d |-> 100]) =>
                   trace[i].req.price =
                       [n |-> IF Upper(args.side) = "BUY" THEN 100 - i ELSE 100 + i,
                        d |-> 1]
        /\ (FailedIdx = {} /\ args.levels >= 0) =>
               (Len(trace) = args.levels /\ result.success = TRUE)

\* a SELL grid of three levels around 100 with step 0.01 was placed, the
\* third level at 103
C19_Witness ==
    /\ op = "build_grid"
    /\ args.side = "sell"
    /\ args.base_price = 100
    /\ args.levels = 3
    /\ args.step_pct = [n |-> 1, d |-> 100]
    /\ result.success = TRUE
    /\ trace[3].req.price = [n |-> 103, d |-> 1]

----------------------------------------------------------------------------
(* SMACrossover: the signal *)

\* the sum of the last k closes of the history h, in tenths
RECURSIVE SumLast(_, _)
SumLast(h, k) ==
    IF k = 0 THEN 0 ELSE h[Len(h)] + SumLast(SubSeq(h, 1, Len(h) - 1), k - 1)

\* C20: on_bar_close returns no signal for the first max(fast, slow) - 1
\* bars of a symbol; from then on it returns LONG exactly when the mean of
\* the last `fast` closes is greater than the mean of the last `slow`
\* closes, FLAT exactly when it is smaller, and no signal when the two means
\* are equal, as they are for a constant sequence of closes.
C20_SignalFollowsMeans ==
    ~IsNone(bar) =>
        LET h == closes[bar.symbol]
            f == SumLast(h, fast) * slow
            s == SumLast(h, slow) * fast
        IN  IF Len(h) < fast \/ Len(h) < slow
            THEN IsNone(signal)
            ELSE /\ (f > s) <=> (signal = Signal(bar.symbol, "LONG"))
                 /\ (f < s) <=> (signal = Signal(bar.symbol, "FLAT"))
                 /\ (f = s) <=> IsNone(signal)

----------------------------------------------------------------------------
(* SMACrossover: the windows *)

\* the last k elements of h, or all of h when it is shorter
LastOf(h, k) ==
    IF Len(h) <= k THEN h ELSE SubSeq(h, Len(h) - k + 1, Len(h))

\* the floats of a sequence of closes
FloatsOf(h) == [i \in 1..Len(h) |-> CloseFloats[h[i]]]

\* C21: for every symbol the fast window holds at most `fast` closes and the
\* slow window at most `slow`, and each window is exactly the most recent
\* closes of that symbol in arrival order; a symbol without bars has no
\* windows.
C21_WindowsHoldLatest ==
    \A s \in BarSymbols :
        IF closes[s] = << >>
        THEN s \notin DOMAIN buf
        ELSE /\ s \in DOMAIN buf
             /\ Len(buf[s].fast) <= fast
             /\ Len(buf[s].slow) <= slow
             /\ buf[s].fast = FloatsOf(LastOf(closes[s], fast))
             /\ buf[s].slow = FloatsOf(LastOf(closes[s], slow))

\* a full fast window has evicted a close of 0.1 and now starts with 1.0
C21_Witness ==
    \E s \in BarSymbols :
        /\ s \in DOMAIN buf
        /\ Len(closes[s]) > fast
        /\ fast >= 2
        /\ closes[s][1] = 1
        /\ buf[s].fast[1] = CloseFloats[10]
        /\ Len(buf[s].fast) = fast

----------------------------------------------------------------------------
(* Backtester: the position *)

\* C22: during a run the position is 0 (FLAT) or 1 (LONG) after every bar:
\* never short, never more than one unit.
C22_PositionFlatOrLong == bt.position \in {0, 1}

\* a run is LONG after a bar
C22_Witness ==
    /\ bt.pc = "loop"
    /\ bt.position = 1
    /\ Len(closes[bt.symbol]) >= 2

\* the step is one bar of the loop
IsBar == bt.pc = "loop" /\ bt'.pc = "loop"

\* the signal the strategy returned for the bar of the step
SignalIs(s) == ~IsNone(signal') /\ signal'.signal = s

Bought ==
    /\ bt'.trades = Append(bt.trades, [action |-> "BUY", price |-> bar'.close])
    /\ bt'.position = 1

Sold ==
    /\ bt'.trades = Append(bt.trades, [action |-> "SELL", price |-> bar'.close])
    /\ bt'.position = 0

\* C23: a bar appends a BUY at its close and makes the position LONG exactly
\* when its signal is LONG and the position is not LONG; it appends a SELL at
\* its close and makes the position FLAT exactly when its signal is FLAT and
\* the position is LONG; otherwise position and trade list are unchanged.
C23_TradeOnlyOnChange ==
    [][IsBar =>
        /\ Bought <=> (SignalIs("LONG") /\ bt.position # 1)
        /\ Sold <=> (SignalIs("FLAT") /\ bt.position = 1)
        /\ (~Bought /\ ~Sold) =>
               (bt'.position = bt.position /\ bt'.trades = bt.trades)]_vars

\* a LONG signal arrived while the run was already LONG: nothing was traded
C23_Witness ==
    /\ bt.pc = "loop"
    /\ ~IsNone(signal)
    /\ signal.signal = "LONG"
    /\ bt.position = 1
    /\ Len(bt.trades) = 1
    /\ bt.last_price # bt.trades[1].price

\* the number of trades of the list t with the given action
CountOf(t, action) == Cardinality({i \in 1..Len(t) : t[i].action = action})

\* C24: the trade list alternates BUY, SELL, BUY, ... starting with BUY, the
\* number of BUYs minus the number of SELLs is 0 or 1 and equals the
\* position, during the run and in the list it returns.
C24_TradesAlternate ==
    /\ \A i \in 1..Len(bt.trades) :
        bt.trades[i].action = IF i % 2 = 1 THEN "BUY" ELSE "SELL"
    /\ CountOf(bt.trades, "BUY") - CountOf(bt.trades, "SELL") \in {0, 1}
    /\ CountOf(bt.trades, "BUY") - CountOf(bt.trades, "SELL") = bt.position
    /\ bt.pc = "done" => bt.ret.trades = bt.trades

\* closes 0.1, 1.0, 0.1 crossed upward once and downward once: the run
\* returned one BUY at 1.0 followed by one SELL at 0.1
C24_Witness ==
    /\ bt.pc = "done"
    /\ closes[bt.symbol] = <<1, 10, 1>>
    /\ bt.ret.trades = <<[action |-> "BUY", price |-> 10],
                         [action |-> "SELL", price |-> 1]>>

\* the realized P&L of a trade list: SELL price minus the price of the BUY
\* before it, summed over the closed round trips
RECURSIVE RealizedPnL(_)
RealizedPnL(t) ==
    IF Len(t) < 2 THEN 0
    ELSE (t[2].price - t[1].price) + RealizedPnL(SubSeq(t, 3, Len(t)))

\* C26: the equity a run reports equals the realized P&L of its trades.
C26_EquityIsRealizedPnL ==
    bt.pc = "done" => bt.ret.equity = RealizedPnL(bt.ret.trades)

----------------------------------------------------------------------------
(* Single orders: persistence failure *)

\* the save_order calls of the handler that failed
FailedSaves == {i \in DOMAIN trace : trace[i].ev = "save_order" /\ ~trace[i].ok}

\* C25: when a single order was accepted and saving it failed, the method
\* still returns success = True with the exchange's order id, and the order
\* was submitted exactly once, before the save.
C25_SaveFailureIgnored ==
    (op \in SingleOps /\ FailedSaves # {}) =>
        /\ result.success = TRUE
        /\ \A i \in FailedSaves :
            /\ result.order_id = trace[i].orderId
            /\ i = Len(trace)
            /\ trace[i - 1].ev = "create_order"
            /\ trace[i - 1].outcome = "Accepted"
        /\ Cardinality(CreateIdx) = 1

\* an accepted limit order whose save failed
C25_Witness ==
    /\ op = "place_limit_order"
    /\ FailedSaves # {}
    /\ result.success = TRUE

----------------------------------------------------------------------------
(* No submission after a rejection *)

\* the create_order calls the exchange rejected or failed fatally
RefusedIdx == {i \in CreateIdx : trace[i].outcome \in {"Rejected", "Fatal"}}

\* C27: after a create_order call that the exchange rejected or that failed
\* fatally, the handler makes no further call: the request is not submitted
\* again, nothing else is submitted, and the handler returns success = False
\* with the error.
C27_NoResubmission ==
    \A i \in RefusedIdx :
        /\ i = Len(trace)
        /\ result.success = FALSE
        /\ result.error = trace[i].outcome

\* the second of three TWAP slices was rejected: two calls were made
C27_Witness ==
    /\ op = "execute"
    /\ args.slices = 3
    /\ RefusedIdx # {}
    /\ "placed" \in DOMAIN result
    /\ Len(result.placed) = 1
    /\ \A i \in RefusedIdx : trace[i].outcome = "Rejected"
    /\ Cardinality(CreateIdx) = 2

----------------------------------------------------------------------------
(* TWAP: the pauses *)

SleepIdx == {i \in DOMAIN trace : trace[i].ev = "sleep"}

\* C28: a pause occurs only between two consecutive slice submissions: a
\* successful run of N slices pauses N - 1 times and ends with the
\* submission of the last slice.
C28_PausesBetweenSlices ==
    (op = "execute" /\ trace # << >>) =>
        /\ \A i \in SleepIdx :
            /\ i > 1 /\ trace[i - 1].ev = "create_order"
            /\ i < Len(trace) /\ trace[i + 1].ev = "create_order"
        /\ result.success = TRUE =>
               /\ Cardinality(SleepIdx) = args.slices - 1
               /\ trace[Len(trace)].ev = "create_order"

----------------------------------------------------------------------------
(* PriceFeed: the lock is always released *)

----------------------------------------------------------------------------
(* Instrument metadata *)

\* the exchange-info requests of the handler, and those that succeeded
InfoIdx == {i \in DOMAIN trace : trace[i].ev = "get_exchange_info"}
InfoOkIdx == {i \in InfoIdx : trace[i].ok}

\* C30: metadata is fetched at most once per symbol: once a lookup has
\* succeeded, the later validation and quantization steps of the order make
\* no further exchange-info request.
C30_MetadataFetchedOnce ==
    op \in SingleOps =>
        \A i \in InfoOkIdx : \A j \in InfoIdx : j <= i
----------------------------------------------------------------------------
(* Backtester: runs that share the strategy *)

\* C31: entering or leaving a run leaves the windows of the strategy as they
\* are, so the windows of a symbol always hold the most recent closes of all
\* the runs made for it so far, not only those of the current run.
C31_WindowsSurviveRuns ==
    /\ [][bt'.pc # bt.pc => buf' = buf]_vars
    /\ [](\A s \in DOMAIN buf :
            /\ buf[s].fast = FloatsOf(LastOf(closes[s], fast))
            /\ buf[s].slow = FloatsOf(LastOf(closes[s], slow)))

\* the first bar of a later run for the symbol produced a signal and a BUY:
\* the slow window still held a close of the earlier run
C31_Witness ==
    /\ bt.pc = "loop"
    /\ bt.bars = 1
    /\ Len(closes[bt.symbol]) > 1
    /\ ~IsNone(signal)
    /\ Len(bt.trades) = 1
    /\ Len(buf[bt.symbol].slow) > 1
----------------------------------------------------------------------------
(* The HTTP API started before the feed *)

\* C32: the Services of the API hold the feed main had when option 13 was
\* chosen and never change afterwards; when that was no feed, every answer
\* of the price endpoint carries a null price, whatever feed main has
\* started since and whatever ticks it has received.
C32_ApiKeepsAbsentFeed ==
    /\ [][IsNone(api_services) /\ ~IsNone(api_services')
              => api_services'.price_feed = price_feed]_vars
    /\ [][~IsNone(api_services) => api_services' = api_services]_vars
    /\ [][api_thread # "None" => api_thread' = api_thread]_vars
    /\ []((~IsNone(api_services) /\ api_services.price_feed = "None")
            => (IsNone(response) \/ response.price = NonePrice))

\* the API was started first, the feed later; a tick for BTCUSDT has been
\* written and the endpoint still answered null for BTCUSDT
C32_Witness ==
    /\ api_thread = "Thread"
    /\ api_services = Services("None")
    /\ price_feed = "PriceFeed"
    /\ DictGet(latest, "BTCUSDT") # NonePrice
    /\ response = PriceBody("BTCUSDT", NonePrice)
----------------------------------------------------------------------------
(* Single orders: a lookup inside format_quantity or format_price that finds *)
(* nothing                                                                  *)

\* the lookup logged at position i of the trace gave the formatter nothing
\* to quantize by: the request failed, or the instrument lacks the filter
NoStep(i) == ~(trace[i].ok /\ HasLotSize(Instrument))
NoTick(i) == ~(trace[i].ok /\ HasPriceFilter(Instrument))

\* C33: a single order that passed validation is submitted to create_order,
\* and a quantity, price or stop price whose lookup found no step or tick
\* size is submitted exactly as it was passed in.
C33_RawValueSubmitted ==
    (op \in SingleOps /\ Len(trace) >= 3) =>
        /\ CreateIdx # {}
        /\ NoStep(3) => SingleRequest.quantity = args.quantity
        /\ (op # "place_market_order" /\ NoTick(4)) =>
               SingleRequest.price = args.price
        /\ (op = "place_stop_limit_order" /\ NoTick(5)) =>
               SingleRequest.stopPrice = args.stop_price

\* validation found BTCUSDT, both later exchange-info requests failed, and
\* the limit order went out with quantity 3 and price 1, off the step and
\* tick of 2, and was accepted
C33_Witness ==
    /\ op = "place_limit_order"
    /\ Upper(args.symbol) = "BTCUSDT"
    /\ args.quantity = 3
    /\ args.price = 1
    /\ Len(trace) >= 5
    /\ trace[1].ok /\ ~trace[3].ok /\ ~trace[4].ok
    /\ SingleRequest.quantity = 3
    /\ SingleRequest.price = 1
    /\ result.success
----------------------------------------------------------------------------
(* TWAP: the total submitted *)

\* the sum of the quantities of the create_order calls at positions 1..k
RECURSIVE SubmittedUpTo(_)
SubmittedUpTo(k) ==
    IF k = 0 THEN Frac(0, 1)
    ELSE LET rest == SubmittedUpTo(k - 1)
         IN  IF trace[k].ev = "create_order"
             THEN LET q == trace[k].req.quantity
                  IN  Frac(rest.n * q.d + q.n * rest.d, rest.d * q.d)
             ELSE rest

SubmittedTotal == SubmittedUpTo(Len(trace))

----------------------------------------------------------------------------
(* Grid: sides other than BUY, and no levels *)

\* C35: when the side is not BUY in any casing, every order of the grid is a
\* SELL priced above the base price at base_price * (1 + step_pct * i), and
\* the first level is submitted whatever the side is; with levels <= 0 no
\* order is placed and the result is a success with an empty order list.
C35_GridOtherSidesSell ==
    op = "build_grid" =>
        /\ Upper(args.side) # "BUY" =>
               \A i \in CreateIdx :
                   /\ trace[i].req.side = "SELL"
                   /\ trace[i].req.price.n > args.base_price * trace[i].req.price.d
                   /\ trace[i].req.price.n * args.step_pct.d =
                          args.base_price * (args.step_pct.d + args.step_pct.n * i)
                              * trace[i].req.price.d
        /\ args.levels > 0 => (Len(trace) >= 1 /\ trace[1].ev = "create_order")
        /\ args.levels <= 0 =>
               (trace = << >> /\ result = [success |-> TRUE, orders |-> << >>])

\* a grid of two levels asked for side HOLD around 100 with step 0.01 was
\* placed as SELL orders at 101 and 102
C35_Witness ==
    /\ op = "build_grid"
    /\ args.side = "HOLD"
    /\ args.levels = 2
    /\ args.base_price = 100
    /\ args.step_pct = [n |-> 1, d |-> 100]
    /\ result.success = TRUE
    /\ Len(result.orders) = 2
    /\ trace[1].req.side = "SELL"
    /\ trace[2].req.price = [n |-> 102, d |-> 1]
----------------------------------------------------------------------------
(* Independence of the symbols *)

\* the signal of a strategy that has seen the closes h and nothing else
OwnSignal(symbol, h) ==
    IF Len(h) < fast \/ Len(h) < slow THEN None
    ELSE Only({IF FLess(sv, fv) THEN Signal(symbol, "LONG")
               ELSE IF FLess(fv, sv) THEN Signal(symbol, "FLAT")
               ELSE None :
               fv \in {FDivInt(FSum(FloatsOf(LastOf(h, fast))), fast)},
               sv \in {FDivInt(FSum(FloatsOf(LastOf(h, slow))), slow)}})

\* the entry of key k is the same in the dicts d and e, or absent in both
SameEntry(d, e, k) ==
    /\ k \in DOMAIN d <=> k \in DOMAIN e
    /\ k \in DOMAIN d => d[k] = e[k]

\* C36: a bar of one symbol leaves the windows of every other symbol as they
\* were, and the signal it returns is the one the closes of its own symbol
\* alone determine; a tick written for one symbol leaves the latest price of
\* every other symbol as it was; bars do not touch the prices and ticks do
\* not touch the windows.
C36_SymbolsIndependent ==
    /\ [][\A s \in BarSymbols :
            closes'[s] = closes[s] => SameEntry(buf, buf', s)]_vars
    /\ [](~IsNone(bar) => signal = OwnSignal(bar.symbol, closes[bar.symbol]))
    /\ [][\A w \in Writers :
            (tpc[w] = "write" /\ tpc'[w] # "write") =>
                \A s \in FeedSymbols \ {msg[w].s} : SameEntry(latest, latest', s)]_vars
    /\ [][(closes' # closes => latest' = latest)
            /\ (latest' # latest => buf' = buf)]_vars

\* ETHUSDT crossed upward on closes 0.1, 1.0 while BTCUSDT, on 1.0, 0.1, had
\* crossed downward; a tick had been written for BTCUSDT only
C36_Witness ==
    /\ ~IsNone(bar)
    /\ bar.symbol = "ETHUSDT"
    /\ closes["ETHUSDT"] = <<1, 10>>
    /\ closes["BTCUSDT"] = <<10, 1>>
    /\ signal = Signal("ETHUSDT", "LONG")
    /\ "BTCUSDT" \in DOMAIN latest
    /\ "ETHUSDT" \notin DOMAIN latest

====
